---- MODULE Spec2Model ----
(***************************************************************************)
(* Model of gr-dcu-libcommon: SharedState<T> (POSIX shared-memory state    *)
(* container), the DeviceConfigTable record it hosts, and the OS name      *)
(* space / objects it acts on.                                             *)
(*                                                                         *)
(* One SharedState instance per handle slot; each slot stands for a        *)
(* separate process.  A POSIX shared-memory object is identified by an     *)
(* object id; a descriptor or a mapping is modelled by the id of the       *)
(* object it refers to (descriptor -1 = no descriptor, pointer 0 = null).  *)
(* An object lives on after shm_unlink while it is mapped or open; the     *)
(* kernel frees it, and its id can name a new object, once nothing refers  *)
(* to it.  Object ids carry no meaning of their own: every handler leaves  *)
(* the objects numbered in the order in which the names and the handles    *)
(* refer to them (canon), so that two states that differ only in the ids   *)
(* are one state.                                                          *)
(***************************************************************************)
EXTENDS Integers, Sequences, FiniteSets, TLC

\* ---------------------------------------------------------------- bounds
\* threads calling a SafeQueue, items they push, values pop() returns
NumThreads == 3
MaxItems == 2
MaxPops == 3

NumHandles == 2

Handles == 1..NumHandles
Threads == 1..NumThreads

\* ------------------------------------------------------------ constants
nullptr == 0
NoFd == -1
NoObj == 0

\* names are strings, modelled as sequences of characters
EmptyName == << >>
NameA == <<"/", "a">>
NameNoSlash == <<"a">>
Names == {EmptyName, NameA, NameNoSlash}
\* the names in a fixed order
NameSeq == <<NameA, EmptyName, NameNoSlash>>

\* enough object ids for every handle and the one well-formed name to refer
\* to an object of their own while one more is being created
ObjIds == 1..(NumHandles + 2)

VARIABLES shm_fd_, data_ptr_, is_owner_, shm_name_,
          shm, region,
          last,
          pc, written, seen,
          now, heartbeat, alive,
          queue_, running_, qpc, pushed, popped

vars == <<shm_fd_, data_ptr_, is_owner_, shm_name_,
          shm, region, last, pc, written, seen,
          now, heartbeat, alive,
          queue_, running_, qpc, pushed, popped>>

\* the state of the processes taking part in the configuration handshake
hsVars == <<pc, written, seen>>

\* the state of a SafeQueue and of the threads that call it
sqVars == <<queue_, running_, qpc, pushed, popped>>

\* the state of a heartbeat monitor
monVars == <<now, heartbeat, alive>>

\* the state outside the shared-memory handles and their processes
extVars == <<monVars, sqVars>>

\* ------------------------------------------------------- record layouts
\* DeviceConfig(): member initialisers of the constructor
DeviceConfig == [baudrate |-> 115200, update_rate_hz |-> 10, option |-> 0,
                 type |-> 1, enabled |-> FALSE]

\* variant: the constructor leaves ready set
DeviceConfigTable_ready == [gps |-> DeviceConfig, imu |-> DeviceConfig,
                            ready |-> TRUE, gps_ready |-> FALSE,
                            imu_ready |-> FALSE]

\* DeviceConfigTable(): gps, imu default constructed, ready(false),
\* status.gps_ready / status.imu_ready stored false
DeviceConfigTable == [gps |-> DeviceConfig, imu |-> DeviceConfig,
                      ready |-> FALSE, gps_ready |-> FALSE,
                      imu_ready |-> FALSE]

\* the bytes of a fresh object after ftruncate: all zero
ZeroDevice == [baudrate |-> 0, update_rate_hz |-> 0, option |-> 0,
               type |-> 0, enabled |-> FALSE]
ZeroFilled == [gps |-> ZeroDevice, imu |-> ZeroDevice, ready |-> FALSE,
               gps_ready |-> FALSE, imu_ready |-> FALSE]

\* --------------------------------------------------------- the state
\* The handle fields and the OS state as one value, threaded through the
\* statements of a handler.
State == [fd |-> shm_fd_, ptr |-> data_ptr_, owner |-> is_owner_,
          name |-> shm_name_,
          shm |-> shm, region |-> region]

\* the objects something refers to: a name, a descriptor or a mapping
Referenced(S) ==
    ({S.shm[n] : n \in Names} \cup {S.fd[h] : h \in Handles}
        \cup {S.ptr[h] : h \in Handles}) \cap ObjIds

\* the id of the next object the kernel creates: the least one that is free
newObject(S) ==
    LET R == Referenced(S)
    IN  CHOOSE o \in ObjIds \ R : \A p \in 1..(o - 1) : p \in R

\* the references to objects, in a fixed order: names, then handles
RECURSIVE handleRefs(_, _)
handleRefs(S, h) ==
    IF h = 0 THEN << >>
    ELSE handleRefs(S, h - 1) \o <<S.ptr[h], S.fd[h]>>

refs(S) ==
    [i \in 1..Len(NameSeq) |-> S.shm[NameSeq[i]]] \o handleRefs(S, NumHandles)

\* the number an object gets: objects are numbered from 1 in the order of
\* their first reference (0: nothing refers to it)
RECURSIVE number(_, _, _)
number(rs, i, rk) ==
    IF i > Len(rs) THEN rk
    ELSE IF rs[i] \in ObjIds /\ rk[rs[i]] = 0
         THEN number(rs, i + 1,
                     [rk EXCEPT ![rs[i]] =
                         Cardinality({o \in ObjIds : rk[o] # 0}) + 1])
         ELSE number(rs, i + 1, rk)

ranks(rs) == number(rs, 1, [o \in ObjIds |-> 0])

renumber(S, rk) ==
    [fd |-> [h \in Handles |-> IF S.fd[h] \in ObjIds THEN rk[S.fd[h]]
                                                     ELSE S.fd[h]],
     ptr |-> [h \in Handles |-> IF S.ptr[h] \in ObjIds THEN rk[S.ptr[h]]
                                                       ELSE S.ptr[h]],
     owner |-> S.owner,
     name |-> S.name,
     shm |-> [n \in Names |-> IF S.shm[n] \in ObjIds THEN rk[S.shm[n]]
                                                     ELSE S.shm[n]],
     region |-> [k \in ObjIds |->
                 IF \E o \in ObjIds : rk[o] = k
                 THEN S.region[CHOOSE o \in ObjIds : rk[o] = k]
                 ELSE ZeroFilled]]

\* the kernel frees the objects nothing refers to, and the objects left are
\* numbered by their first reference
canon(S) ==
    CHOOSE T \in {renumber(S, rk) :
                     rk \in {ranks(rs) : rs \in {refs(S)}}} : TRUE

\* a call that changes no reference to an object leaves the numbering as
\* it is
Commit(T) ==
    \E S \in {IF T.fd = shm_fd_ /\ T.ptr = data_ptr_ /\ T.shm = shm
                THEN T ELSE canon(T)} :
    /\ shm_fd_' = S.fd
    /\ data_ptr_' = S.ptr
    /\ is_owner_' = S.owner
    /\ shm_name_' = S.name
    /\ shm' = S.shm
    /\ region' = S.region

\* SharedState(): shm_fd_(-1), data_ptr_(nullptr), is_owner_(false), shm_name_("")
InitHandles ==
    /\ shm_fd_ = [h \in Handles |-> NoFd]
    /\ data_ptr_ = [h \in Handles |-> nullptr]
    /\ is_owner_ = [h \in Handles |-> FALSE]
    /\ shm_name_ = [h \in Handles |-> EmptyName]
    /\ shm = [n \in Names |-> NoObj]
    /\ region = [o \in ObjIds |-> ZeroFilled]
    /\ last = [op |-> "none", h |-> 0, name |-> EmptyName, ret |-> FALSE]
    /\ pc = [h \in Handles |-> "start"]
    /\ written = 0
    /\ seen = [h \in Handles |-> << >>]

\* SafeQueue(): queue_ empty, running_ = true; no thread is in a call
InitQueue ==
    /\ queue_ = << >>
    /\ running_ = TRUE
    /\ qpc = [t \in Threads |-> "idle"]
    /\ pushed = 0
    /\ popped = << >>

Init ==
    /\ InitHandles
    /\ now = 0
    /\ heartbeat = 0
    /\ alive = "unknown"
    /\ InitQueue

\* ------------------------------------------------------------ OS calls
\* shm_unlink(name): the name no longer refers to an object
\* variant: the name is left linked
shm_unlink_fails(S, name) == S

shm_unlink(S, name) == [S EXCEPT !.shm[name] = NoObj]

\* ------------------------------------------------------ private helpers
\* validateName that tests only for the empty string
validateName_emptyOnly(name) == Len(name) # 0

validateName(name) == ~(Len(name) = 0 \/ name[1] # "/")

\* cleanup() without the is_owner_ test before shm_unlink
\* variant: munmap() without data_ptr_ = nullptr
cleanup_keepsPtr(S, h) ==
    LET S2 == IF S.fd[h] >= 0 THEN [S EXCEPT !.fd[h] = NoFd] ELSE S
    IN  IF S2.owner[h] /\ S2.name[h] # EmptyName
        THEN shm_unlink(S2, S2.name[h])
        ELSE S2

cleanup_unlinkAlways(S, h) ==
    LET S1 == [S EXCEPT !.ptr[h] = nullptr, !.fd[h] = NoFd]
    IN  IF S1.name[h] # EmptyName THEN shm_unlink(S1, S1.name[h]) ELSE S1

cleanup(S, h) ==
    LET S1 == IF S.ptr[h] # nullptr
              THEN [S EXCEPT !.ptr[h] = nullptr]
              ELSE S
        S2 == IF S1.fd[h] >= 0
              THEN [S1 EXCEPT !.fd[h] = NoFd]
              ELSE S1
    IN  IF S2.owner[h] /\ S2.name[h] # EmptyName
        THEN shm_unlink(S2, S2.name[h])
        ELSE S2

\* handleInternalError(msg): cleanup(), return false
handleInternalError(S, h) == [st |-> cleanup(S, h), ret |-> FALSE]

\* variant: the mapping step also constructs the record in place
mapMemory_constructs(S, h, mmap_ok) ==
    IF ~mmap_ok
    THEN [st |-> cleanup(S, h), ret |-> FALSE]
    ELSE [st |-> [S EXCEPT !.ptr[h] = S.fd[h],
                           !.region[S.fd[h]] = DeviceConfigTable],
          ret |-> TRUE]

\* mapMemory(): mmap of shm_fd_, data_ptr_ takes the address
mapMemory(S, h, mmap_ok) ==
    IF ~mmap_ok
    THEN handleInternalError(S, h)
    ELSE [st |-> [S EXCEPT !.ptr[h] = S.fd[h]], ret |-> TRUE]

\* if (data_ptr_) new (data_ptr_) T(), left out
construct_skipped(S, h) == S

\* if (data_ptr_) new (data_ptr_) T()
construct(S, h) ==
    IF S.ptr[h] # nullptr
    THEN [S EXCEPT !.region[S.ptr[h]] = DeviceConfigTable]
    ELSE S

\* -------------------------------------------------------------- create
\* what the OS calls and the constructor of T do in one call of create()
CreateOutcomes == {"ok", "shm_open", "ftruncate", "mmap", "ctor"}

create(S, h, shm_name, oc) ==
    IF ~validateName(shm_name)
    THEN [st |-> S, ret |-> FALSE]
    ELSE
    LET S1 == [S EXCEPT !.name[h] = shm_name]
        S2 == shm_unlink(S1, shm_name)
        o  == newObject(S1)
        \* shm_open(O_CREAT | O_RDWR): the object of the name, or a new,
        \* empty one under the name when there is none;
        \* ftruncate(shm_fd_, sizeof(T)) gives a new object its zero bytes
        S3 == IF S2.shm[shm_name] # NoObj
              THEN [S2 EXCEPT !.fd[h] = S2.shm[shm_name]]
              ELSE [S2 EXCEPT !.shm[shm_name] = o, !.region[o] = ZeroFilled,
                              !.fd[h] = o]
        m  == mapMemory(S3, h, oc # "mmap")
        S5 == construct(m.st, h)
    IN  CASE oc = "shm_open" ->
               [st |-> [S2 EXCEPT !.fd[h] = NoFd], ret |-> FALSE]
          [] oc = "ftruncate" ->
               [st |-> [S3 EXCEPT !.fd[h] = NoFd], ret |-> FALSE]
          [] oc = "mmap" -> m
          [] oc = "ctor" ->
               \* T() throws: catch block runs cleanup()
               [st |-> cleanup(m.st, h), ret |-> FALSE]
          [] OTHER ->
               [st |-> [S5 EXCEPT !.owner[h] = TRUE], ret |-> TRUE]

\* ---------------------------------------------------------------- open
\* what the OS calls do in one call of open()
OpenOutcomes == {"ok", "shm_open", "mmap"}

open(S, h, shm_name, oc) ==
    IF ~validateName(shm_name)
    THEN [st |-> S, ret |-> FALSE]
    ELSE
    LET S1 == [S EXCEPT !.name[h] = shm_name]
        o  == S1.shm[shm_name]
        \* shm_open(O_RDWR): fails when the name refers to no object
        S2 == [S1 EXCEPT !.fd[h] = IF o = NoObj \/ oc = "shm_open"
                                    THEN NoFd ELSE o]
        m  == mapMemory(S2, h, oc # "mmap")
    IN  IF S2.fd[h] < 0
        THEN [st |-> S2, ret |-> FALSE]
        ELSE IF ~m.ret
        THEN m
        ELSE [st |-> [m.st EXCEPT !.owner[h] = FALSE], ret |-> TRUE]

\* bool isInitialized() const
isInitialized(h) == data_ptr_[h] # nullptr

\* ------------------------------------------------------------- actions
Create(h, n, oc) ==
    /\ ~validateName(n) => oc = "ok"
    /\ \E r \in {create(State, h, n, oc)} :
           /\ Commit(r.st)
           /\ last' = [op |-> "create", h |-> h, name |-> n, ret |-> r.ret]

Open(h, n, oc) ==
    /\ ~validateName(n) => oc = "ok"
    /\ \E r \in {open(State, h, n, oc)} :
           /\ Commit(r.st)
           /\ last' = [op |-> "open", h |-> h, name |-> n, ret |-> r.ret]

\* void close()
Close(h) ==
    /\ Commit(cleanup(State, h))
    /\ last' = [op |-> "close", h |-> h, name |-> EmptyName, ret |-> TRUE]

\* SharedState(): the member initialisers
SharedState(S, h) ==
    [S EXCEPT !.fd[h] = NoFd, !.ptr[h] = nullptr, !.owner[h] = FALSE,
              !.name[h] = EmptyName]

\* ~SharedState(): cleanup(); the instance is gone, and its slot is taken
\* by a newly constructed instance of the same process
Destroy(h) ==
    /\ Commit(SharedState(cleanup(State, h), h))
    /\ last' = [op |-> "dtor", h |-> h, name |-> EmptyName, ret |-> TRUE]

Next ==
    \/ \E h \in Handles, n \in Names, oc \in CreateOutcomes :
            Create(h, n, oc) /\ UNCHANGED <<hsVars, extVars>>
    \/ \E h \in Handles, n \in Names, oc \in OpenOutcomes :
            Open(h, n, oc) /\ UNCHANGED <<hsVars, extVars>>
    \/ \E h \in Handles : Close(h) /\ UNCHANGED <<hsVars, extVars>>
    \/ \E h \in Handles : Destroy(h) /\ UNCHANGED <<hsVars, extVars>>

Spec == Init /\ [][Next]_vars

\* ------------------------------------------------- access to the record
\* variant: the store rewrites the whole record from its initial image
Store_wholeRecord(h, f, v) ==
    /\ data_ptr_[h] # nullptr
    /\ region' = [region EXCEPT ![data_ptr_[h]] =
                                    [DeviceConfigTable EXCEPT ![f] = v]]
    /\ last' = [op |-> "store", h |-> h, name |-> EmptyName, ret |-> TRUE]
    /\ UNCHANGED <<shm_fd_, data_ptr_, is_owner_, shm_name_, shm>>

\* operator->(): shm->f.store(v) by the process of an attached handle
Store(h, f, v) ==
    /\ isInitialized(h)
    /\ region' = [region EXCEPT ![data_ptr_[h]][f] = v]
    /\ last' = [op |-> "store", h |-> h, name |-> EmptyName, ret |-> TRUE]
    /\ UNCHANGED <<shm_fd_, data_ptr_, is_owner_, shm_name_, shm>>

\* the life cycle of the handles under one well-formed name, together
\* with stores to the atomic flag DeviceConfigTable::ready
NextData ==
    \/ \E h \in Handles : Create(h, NameA, "ok") /\ UNCHANGED <<hsVars, extVars>>
    \/ \E h \in Handles, oc \in OpenOutcomes :
            Open(h, NameA, oc) /\ UNCHANGED <<hsVars, extVars>>
    \/ \E h \in Handles : Close(h) /\ UNCHANGED <<hsVars, extVars>>
    \/ \E h \in Handles, v \in BOOLEAN :
            Store(h, "ready", v) /\ UNCHANGED <<hsVars, extVars>>

SpecData == Init /\ [][NextData]_vars

\* operator->(): plain assignment shm->dev.f = v to a configuration field
Write(h, dev, f, v) ==
    /\ isInitialized(h)
    /\ region' = [region EXCEPT ![data_ptr_[h]][dev][f] = v]
    /\ last' = [op |-> "write", h |-> h, name |-> EmptyName, ret |-> TRUE]
    /\ UNCHANGED <<shm_fd_, data_ptr_, is_owner_, shm_name_, shm>>

\* the process that creates the record uses the first handle
Controller == 1

\* ------------------------------------------------ one creating handle
\* every resource is created by the first handle, in calls of create()
\* whose OS calls succeed; the other handles open and close
NextOwner ==
    \/ \E n \in Names :
            Create(Controller, n, "ok") /\ UNCHANGED <<hsVars, extVars>>
    \/ \E h \in Handles, n \in Names, oc \in OpenOutcomes :
            Open(h, n, oc) /\ UNCHANGED <<hsVars, extVars>>
    \/ \E h \in Handles : Close(h) /\ UNCHANGED <<hsVars, extVars>>
    \/ \E h \in Handles : Destroy(h) /\ UNCHANGED <<hsVars, extVars>>

SpecOwner == Init /\ [][NextOwner]_vars

\* ------------------------------------------------- field round trip
\* the std::atomic<bool> members of DeviceConfigTable; the process of
\* handle h stores to the h-th of them
AtomicFieldSeq == <<"ready", "gps_ready", "imu_ready">>
FieldOf(h) == AtomicFieldSeq[h]

\* every process has stored to its field
AllStored == \A w \in Handles : pc[w] \in {"stored", "detached", "read"}

\* the first process creates the record
RTCreate ==
    /\ pc[Controller] = "start"
    /\ \E n \in Names : Create(Controller, n, "ok")
    /\ pc' = [pc EXCEPT ![Controller] = IF last'.ret THEN "store" ELSE "start"]
    /\ UNCHANGED <<written, seen>>

\* every other process attaches to it
RTOpen(h) ==
    /\ h # Controller
    /\ pc[h] = "start"
    /\ \E n \in Names, oc \in OpenOutcomes : Open(h, n, oc)
    /\ pc' = [pc EXCEPT ![h] = IF last'.ret THEN "store" ELSE "start"]
    /\ UNCHANGED <<written, seen>>

\* an attached process stores a value to its own field, any number of
\* times
RTStore(h, v) ==
    /\ pc[h] \in {"store", "stored", "read"}
    /\ Store(h, FieldOf(h), v)
    /\ seen' = [seen EXCEPT ![h] = <<v>>]
    /\ pc' = [pc EXCEPT ![h] = IF pc[h] = "read" THEN "read" ELSE "stored"]
    /\ UNCHANGED written

\* once every process has stored, a process that is not the owner opens
\* the name afresh
RTReopen(h) ==
    /\ h # Controller
    /\ AllStored
    /\ pc[h] \in {"stored", "detached", "read"}
    /\ \E n \in Names, oc \in OpenOutcomes : Open(h, n, oc)
    /\ pc' = [pc EXCEPT ![h] = IF last'.ret THEN "read" ELSE "detached"]
    /\ UNCHANGED <<written, seen>>

\* a process that is not the owner detaches: before its store it starts
\* over, after it it is left to open the name afresh
RTClose(h) ==
    /\ h # Controller
    /\ pc[h] \in {"store", "stored", "read"}
    /\ Close(h)
    /\ pc' = [pc EXCEPT ![h] = IF pc[h] = "store" THEN "start" ELSE "detached"]
    /\ UNCHANGED <<written, seen>>

NextRT ==
    \/ RTCreate /\ UNCHANGED extVars
    \/ \E h \in Handles : RTOpen(h) /\ UNCHANGED extVars
    \/ \E h \in Handles, v \in BOOLEAN : RTStore(h, v) /\ UNCHANGED extVars
    \/ \E h \in Handles : RTReopen(h) /\ UNCHANGED extVars
    \/ \E h \in Handles : RTClose(h) /\ UNCHANGED extVars

SpecRT == Init /\ [][NextRT]_vars

\* ------------------------------------------------------------ SafeQueue
\* T{}: the value pop() returns for an empty queue; items are numbered
\* from 1 in the order their push() took the lock
Default == 0

\* what a call on the queue leaves alone
notQueue == <<shm_fd_, data_ptr_, is_owner_, shm_name_, shm, region, last,
              hsVars, monVars>>

\* variant: the item is put at the front
push_front(q, item) == <<item>> \o q

\* queue_.push(std::move(item))
push(q, item) == Append(q, item)

\* cond_.notify_one(): one of the waiting threads, if there is any, is
\* woken; the possible outcomes
notify_one(pcs) ==
    IF \A t \in Threads : pcs[t] # "waiting"
    THEN {pcs}
    ELSE {[pcs EXCEPT ![w] = "woken"] : w \in {t \in Threads : pcs[t] = "waiting"}}

\* variant: nobody is woken
notify_all_lost(pcs) == pcs

\* cond_.notify_all(): every waiting thread is woken
notify_all(pcs) ==
    [t \in Threads |-> IF pcs[t] = "waiting" THEN "woken" ELSE pcs[t]]

\* variant: the wait is left at once
waitPredicate_true(q, run) == TRUE

\* the predicate of cond_.wait: !queue_.empty() || !running_
waitPredicate(q, run) == q # << >> \/ ~run

\* push(): lock, queue_.push, notify_one, unlock
Push(t) ==
    /\ qpc[t] = "idle"
    /\ pushed < MaxItems
    /\ pushed' = pushed + 1
    /\ queue_' = push(queue_, pushed + 1)
    /\ qpc' \in notify_one(qpc)
    /\ UNCHANGED <<running_, popped, notQueue>>

\* the part of pop() that runs with the lock held: the predicate of the
\* wait is evaluated; when it is false the thread waits, giving up the
\* lock, and otherwise it returns T{} for an empty queue and the front
\* item, removed, for any other
popLocked(t) ==
    IF ~waitPredicate(queue_, running_)
    THEN /\ qpc' = [qpc EXCEPT ![t] = "waiting"]
         /\ UNCHANGED <<queue_, popped>>
    ELSE /\ qpc' = [qpc EXCEPT ![t] = "idle"]
         /\ IF queue_ = << >>
            THEN popped' = Append(popped, Default) /\ UNCHANGED queue_
            ELSE popped' = Append(popped, Head(queue_))
                 /\ queue_' = Tail(queue_)

\* pop(): a thread calls it
Pop(t) ==
    /\ qpc[t] = "idle"
    /\ Len(popped) < MaxPops
    /\ popLocked(t)
    /\ UNCHANGED <<running_, pushed, notQueue>>

\* pop(): a woken thread has the lock again
PopResume(t) ==
    /\ qpc[t] = "woken"
    /\ popLocked(t)
    /\ UNCHANGED <<running_, pushed, notQueue>>

\* a condition variable may wake a waiting thread without a notify
SpuriousWake(t) ==
    /\ qpc[t] = "waiting"
    /\ qpc' = [qpc EXCEPT ![t] = "woken"]
    /\ UNCHANGED <<queue_, running_, pushed, popped, notQueue>>

\* stop(): { lock; running_ = false; }
Stop(t) ==
    /\ qpc[t] = "idle"
    /\ running_' = FALSE
    /\ qpc' = [qpc EXCEPT ![t] = "notify"]
    /\ UNCHANGED <<queue_, pushed, popped, notQueue>>

\* stop(): cond_.notify_all(), after the lock is released
StopNotify(t) ==
    /\ qpc[t] = "notify"
    /\ qpc' = [notify_all(qpc) EXCEPT ![t] = "idle"]
    /\ UNCHANGED <<queue_, running_, pushed, popped, notQueue>>

NextSQ ==
    \/ \E t \in Threads : Push(t)
    \/ \E t \in Threads : Pop(t)
    \/ \E t \in Threads : PopResume(t)
    \/ \E t \in Threads : SpuriousWake(t)
    \/ \E t \in Threads : Stop(t)
    \/ \E t \in Threads : StopNotify(t)

SpecSQ == Init /\ [][NextSQ]_vars

\* fair scheduling: a thread that can go on with pop() or with stop()
\* eventually does
SpecSQFair ==
    /\ Init
    /\ [][NextSQ]_vars
    /\ \A t \in Threads : WF_vars(PopResume(t)) /\ WF_vars(StopNotify(t))

\* ---------------------------------------------------- heartbeat monitor
\* variant: the threshold taken in seconds
AliveTimeThresholdSound_seconds == 5000 \div 1000

\* heartbeat threshold (ms)
AliveTimeThresholdSound == 5000

\* extra time allowed for network delay and scheduling (ms)
AliveTimeMargin == 500

\* the heartbeat ages (ms) and heartbeat timestamps the monitor is tried on
MaxAge == 6000
HeartbeatTimes == {0, 1, 1000}

\* the monitored agent is judged alive when its heartbeat is younger than
\* threshold + margin
isAlive(now_ms, heartbeat_ms) ==
    (now_ms - heartbeat_ms) < (AliveTimeThresholdSound + AliveTimeMargin)

InitMon ==
    /\ InitHandles
    /\ heartbeat \in HeartbeatTimes
    /\ now \in {heartbeat + age : age \in 0..MaxAge}
    /\ alive = "unknown"
    /\ InitQueue

\* the monitor loads the heartbeat and judges the agent
Judge ==
    /\ alive = "unknown"
    /\ alive' = IF isAlive(now, heartbeat) THEN "alive" ELSE "dead"
    /\ UNCHANGED <<shm_fd_, data_ptr_, is_owner_, shm_name_, shm, region,
                   last, hsVars, now, heartbeat, sqVars>>

NextMon == Judge

SpecMon == InitMon /\ [][NextMon]_vars

\* ------------------------------------------- two-phase config handshake
\* the controller (DCU, server) is the process of the first handle, every
\* other handle belongs to an agent (client): GPS first, then IMU
Agents == Handles \ {Controller}
AgentDevice(a) == IF a = Controller + 1 THEN "gps" ELSE "imu"
AgentFlag(a) == IF a = Controller + 1 THEN "gps_ready" ELSE "imu_ready"

\* the configuration the controller publishes, one field per step
ConfigWrites ==
    << [dev |-> "gps", f |-> "baudrate", v |-> 9600],
       [dev |-> "gps", f |-> "update_rate_hz", v |-> 5],
       [dev |-> "gps", f |-> "enabled", v |-> TRUE],
       [dev |-> "imu", f |-> "baudrate", v |-> 230400],
       [dev |-> "imu", f |-> "update_rate_hz", v |-> 100],
       [dev |-> "imu", f |-> "enabled", v |-> TRUE] >>

RECURSIVE applyWrites(_, _)
applyWrites(r, k) ==
    IF k = 0 THEN r
    ELSE LET w == ConfigWrites[k]
         IN  [applyWrites(r, k - 1) EXCEPT ![w.dev][w.f] = w.v]

\* the record once every configuration field is written
PublishedConfig == applyWrites(DeviceConfigTable, Len(ConfigWrites))

\* controller: create the record
CtrlCreate ==
    /\ pc[Controller] = "start"
    /\ \E oc \in CreateOutcomes : Create(Controller, NameA, oc)
    /\ pc' = [pc EXCEPT ![Controller] = IF last'.ret THEN "cfg" ELSE "start"]
    /\ UNCHANGED <<written, seen>>

\* controller: write the next configuration field
CtrlWrite ==
    /\ pc[Controller] = "cfg"
    /\ written < Len(ConfigWrites)
    /\ \E w \in {ConfigWrites[written + 1]} : Write(Controller, w.dev, w.f, w.v)
    /\ written' = written + 1
    /\ UNCHANGED <<pc, seen>>

\* controller: every field written, set ready
CtrlPublish ==
    /\ pc[Controller] = "cfg"
    /\ written = Len(ConfigWrites)
    /\ Store(Controller, "ready", TRUE)
    /\ pc' = [pc EXCEPT ![Controller] = "done"]
    /\ UNCHANGED <<written, seen>>

\* agent: attach to the record, retried until it succeeds
AgentOpen(a) ==
    /\ pc[a] = "start"
    /\ \E oc \in OpenOutcomes : Open(a, NameA, oc)
    /\ pc' = [pc EXCEPT ![a] = IF last'.ret THEN "poll" ELSE "start"]
    /\ UNCHANGED <<written, seen>>

\* agent: load ready, go on only when it reads true
AgentPoll(a) ==
    /\ pc[a] = "poll"
    /\ isInitialized(a)
    /\ pc' = [pc EXCEPT ![a] = IF region[data_ptr_[a]].ready
                                THEN "read" ELSE "poll"]
    /\ UNCHANGED <<shm_fd_, data_ptr_, is_owner_, shm_name_, shm, region,
                   last, written, seen>>

\* agent: read the configuration of its device
AgentRead(a) ==
    /\ pc[a] = "read"
    /\ seen' = [seen EXCEPT ![a] = <<region[data_ptr_[a]][AgentDevice(a)]>>]
    /\ pc' = [pc EXCEPT ![a] = "ack"]
    /\ UNCHANGED <<shm_fd_, data_ptr_, is_owner_, shm_name_, shm, region,
                   last, written>>

\* agent: set its own ready flag
AgentAck(a) ==
    /\ pc[a] = "ack"
    /\ Store(a, AgentFlag(a), TRUE)
    /\ pc' = [pc EXCEPT ![a] = "done"]
    /\ UNCHANGED <<written, seen>>

\* the controller, once done, detaches
CtrlClose ==
    /\ pc[Controller] = "done"
    /\ Close(Controller)
    /\ pc' = [pc EXCEPT ![Controller] = "closed"]
    /\ UNCHANGED <<written, seen>>

\* an attached agent detaches, at any step
AgentClose(a) ==
    /\ pc[a] \in {"poll", "read", "ack", "done"}
    /\ Close(a)
    /\ pc' = [pc EXCEPT ![a] = "closed"]
    /\ UNCHANGED <<written, seen>>

\* a detached agent starts over
AgentRestart(a) ==
    /\ pc[a] = "closed"
    /\ pc' = [pc EXCEPT ![a] = "start"]
    /\ seen' = [seen EXCEPT ![a] = << >>]
    /\ UNCHANGED <<shm_fd_, data_ptr_, is_owner_, shm_name_, shm, region,
                   last, written>>

NextHS ==
    \/ CtrlCreate /\ UNCHANGED extVars
    \/ CtrlWrite /\ UNCHANGED extVars
    \/ CtrlPublish /\ UNCHANGED extVars
    \/ \E a \in Agents : AgentOpen(a) /\ UNCHANGED extVars
    \/ \E a \in Agents : AgentPoll(a) /\ UNCHANGED extVars
    \/ \E a \in Agents : AgentRead(a) /\ UNCHANGED extVars
    \/ \E a \in Agents : AgentAck(a) /\ UNCHANGED extVars
    \/ CtrlClose /\ UNCHANGED extVars
    \/ \E a \in Agents : AgentClose(a) /\ UNCHANGED extVars
    \/ \E a \in Agents : AgentRestart(a) /\ UNCHANGED extVars

SpecHS == Init /\ [][NextHS]_vars

\* =============================================================== claims
handleVars == <<shm_fd_, data_ptr_, is_owner_, shm_name_>>

\* a name the specification calls invalid: empty, or not starting with '/'
InvalidName(n) == n = EmptyName \/ Head(n) # "/"

\* open(name) by handle g would succeed if the OS calls do
OpenSucceeds(g, n) == open(State, g, n, "ok").ret

\* ------------------------------------------------------------------ C1
\* C1: for every name, at most one handle has is_owner_ = true with that
\* name stored, in every reachable state.
C1_AtMostOneOwner ==
    \A n \in Names :
        Cardinality({h \in Handles : is_owner_[h] /\ shm_name_[h] = n}) <= 1

\* ------------------------------------------------------------------ C2
\* a handle that holds neither a mapping nor a descriptor
CleanedUp(h) == data_ptr_[h] = nullptr /\ shm_fd_[h] = NoFd

\* C2: close() on a handle that is already cleaned up changes neither the
\* handle nor the resource under any name, whatever the other handles did
\* since it was cleaned up.
C2_CloseIdempotent ==
    [][\A h \in Handles :
          (CleanedUp(h) /\ last'.op = "close" /\ last'.h = h)
              => UNCHANGED <<shm_fd_, data_ptr_, is_owner_, shm_name_, shm>>]_vars

\* ------------------------------------------------------------------ C3
\* C3: close() or the destructor of a handle attached by open() (mapped,
\* not owner) removes no resource: every name that refers to an object
\* before still does afterwards, and open() of it by any handle succeeds.
C3_NonOwnerCloseKeepsResource ==
    [][\A h \in Handles :
          (isInitialized(h) /\ ~is_owner_[h]
              /\ last'.op \in {"close", "dtor"} /\ last'.h = h)
              => \A n \in Names :
                    shm[n] # NoObj
                        => /\ shm'[n] # NoObj
                           /\ \A g \in Handles : OpenSucceeds(g, n)']_vars

\* a handle that is not owner has just closed, and the resource of the
\* name it was attached under is still there, held by its owner
C3_Witness ==
    /\ last.op \in {"close", "dtor"}
    /\ \E c \in Handles \ {last.h} :
          /\ is_owner_[c] /\ isInitialized(c)
          /\ shm[shm_name_[c]] = data_ptr_[c]
          /\ ~is_owner_[last.h]
          /\ last.op = "close" => shm_name_[last.h] = shm_name_[c]

\* ------------------------------------------------------------------ C4
\* C4: when create(name) with a well-formed name returns false, no object
\* is left under the name.
C4_CreateRollsBack ==
    (last.op = "create" /\ ~last.ret /\ ~InvalidName(last.name))
        => shm[last.name] = NoObj

\* ------------------------------------------------------------------ C5
\* C5: when create() or open() returns false after the name passed
\* validation, the handle holds neither a mapping nor a descriptor.
C5_FailureLeavesUnattached ==
    (last.op \in {"create", "open"} /\ ~last.ret /\ ~InvalidName(last.name))
        => (~isInitialized(last.h) /\ shm_fd_[last.h] = NoFd)

\* ------------------------------------------------------------------ C6
\* C6: create(name) and open(name) with an invalid name return false and
\* change neither the resource under any name nor a field of the handle.
C6_InvalidNameNoEffect ==
    [][(last'.op \in {"create", "open"} /\ InvalidName(last'.name))
          => /\ last'.ret = FALSE
             /\ UNCHANGED <<handleVars, shm, region>>]_vars

\* an invalid name was given to an attached handle while the resource exists
C6_Witness ==
    /\ last.op \in {"create", "open"}
    /\ InvalidName(last.name)
    /\ ~last.ret
    /\ isInitialized(last.h)
    /\ shm[NameA] # NoObj

\* ------------------------------------------------------------------ C7
\* the values the constructors of DeviceConfigTable and DeviceConfig set
InitialValues(r) ==
    /\ r.ready = FALSE /\ r.gps_ready = FALSE /\ r.imu_ready = FALSE
    /\ \A d \in {r.gps, r.imu} :
          d.enabled = FALSE /\ d.baudrate = 115200 /\ d.update_rate_hz = 10

\* C7: right after create(name) returned true, open(name) by any other
\* handle succeeds and maps the creator's record, which holds the initial
\* values; and a handle whose open() has just returned true, on the object
\* an attached owner created, reads the initial values (no process stores
\* under this specification).
C7_OpenSeesInitialValues ==
    /\ (last.op = "create" /\ last.ret)
          => \A g \in Handles \ {last.h} :
                \E r \in {open(State, g, last.name, "ok")} :
                    /\ r.ret
                    /\ r.st.ptr[g] = r.st.ptr[last.h]
                    /\ InitialValues(r.st.region[r.st.ptr[g]])
    /\ (last.op = "open" /\ last.ret)
          => \A c \in Handles \ {last.h} :
                (is_owner_[c] /\ data_ptr_[c] = data_ptr_[last.h])
                    => InitialValues(region[data_ptr_[last.h]])

\* a second handle has opened the name and maps the record of the owner
C7_Witness ==
    /\ last.op = "open" /\ last.ret
    /\ \E c \in Handles \ {last.h} :
          /\ is_owner_[c] /\ data_ptr_[c] = data_ptr_[last.h]
          /\ shm_name_[c] = last.name
          /\ InitialValues(region[data_ptr_[last.h]])

\* ------------------------------------------------------------------ C8
\* the owner has just removed the resource of name n by close()
OwnerJustRemoved(n) ==
    /\ last.op = "close"
    /\ is_owner_[last.h] /\ shm_name_[last.h] = n
    /\ shm[n] = NoObj

\* C8: after the owner removed the resource, open(name) fails as long as
\* no create(name) has returned true.
C8_OpenFailsUntilCreateSucceeds ==
    [][\A n \in Names :
          (OwnerJustRemoved(n) /\ ~(last'.op = "create" /\ last'.ret))
              => \A g \in Handles : ~OpenSucceeds(g, n)']_vars

\* C9: open() never constructs or resets the record.  Across every
\* open(name), successful or not, every record that is still reachable
\* afterwards (through a linked name or through another handle's mapping)
\* holds the field values it held before, and a successful open maps the
\* record of the name with the values it held before the call.
C9_OpenKeepsRecord ==
    [][last'.op = "open" =>
        /\ \A m \in Names : (shm[m] # NoObj /\ shm'[m] # NoObj)
                => region'[shm'[m]] = region[shm[m]]
        /\ \A g \in Handles :
                (g # last'.h /\ data_ptr_[g] # nullptr /\ data_ptr_'[g] # nullptr)
                => region'[data_ptr_'[g]] = region[data_ptr_[g]]
        /\ last'.ret => /\ shm[last'.name] # NoObj
                        /\ data_ptr_'[last'.h] # nullptr
                        /\ region'[data_ptr_'[last'.h]] = region[shm[last'.name]]]_vars

\* a successful open() has mapped a record whose ready flag, stored after
\* create(), is still set
C9_Witness ==
    /\ last.op = "open"
    /\ last.ret
    /\ data_ptr_[last.h] # nullptr
    /\ region[data_ptr_[last.h]].ready
    /\ region[data_ptr_[last.h]] # DeviceConfigTable

\* C10: two-phase config handshake.  A record starts unpublished (ready
\* and the agent flags false); ready is true in a record only when the
\* controller has written every configuration field; an agent flag is true
\* only in a record whose ready is true; an agent is at its read step only
\* when the controller's writes are complete, and what it has read is the
\* published configuration of its device.
C10_HandshakeOrdering ==
    /\ (pc[Controller] = "cfg" /\ written = 0)
            => region[data_ptr_[Controller]] = DeviceConfigTable
    /\ \A o \in ObjIds :
            /\ region[o].ready => written = Len(ConfigWrites)
            /\ (region[o].gps_ready \/ region[o].imu_ready) => region[o].ready
    /\ \A a \in Agents :
            /\ pc[a] \in {"read", "ack", "done"}
                    => written = Len(ConfigWrites)
            /\ pc[a] = "read" => region[data_ptr_[a]].ready
            /\ seen[a] # << >> => seen[a] = <<PublishedConfig[AgentDevice(a)]>>

\* an agent has read the published configuration and acknowledged it
C10_Witness ==
    \E a \in Agents :
        /\ pc[a] = "done"
        /\ seen[a] = <<PublishedConfig[AgentDevice(a)]>>
        /\ region[data_ptr_[a]][AgentFlag(a)]
        /\ region[data_ptr_[a]].ready

\* C11: round trip without cross-field interference.  When every attached
\* process has stored a value into its own atomic field, in any
\* interleaving, a handle that opens the name afterwards reads in each
\* field the value last stored to it by the process the field belongs to.
C11_RoundTrip ==
    \A r \in Handles :
        pc[r] = "read"
            => \A w \in Handles :
                   region[data_ptr_[r]][FieldOf(w)] = seen[w][1]

\* a fresh opener reads back a record in which two fields hold different
\* values
C11_Witness ==
    \E r \in Handles :
        /\ pc[r] = "read"
        /\ \E w1, w2 \in Handles :
              /\ seen[w1] = <<TRUE>> /\ seen[w2] = <<FALSE>>
              /\ region[data_ptr_[r]][FieldOf(w1)]
              /\ ~region[data_ptr_[r]][FieldOf(w2)]

\* C12: liveness predicate.  With threshold 5000 ms and margin 500 ms the
\* agent is judged alive exactly when its heartbeat is less than 5500 ms
\* old: an age of 4000 reads as alive, an age of 6000 as not alive.
C12_AliveBelow5500 ==
    alive # "unknown"
        => /\ (alive = "alive") <=> (now - heartbeat < 5500)
           /\ now - heartbeat = 4000 => alive = "alive"
           /\ now - heartbeat = 6000 => alive = "dead"

\* a heartbeat exactly 5500 ms old has been judged, as not alive
C12_Witness ==
    /\ now - heartbeat = 5500
    /\ heartbeat > 0
    /\ alive = "dead"

\* C13: isInitialized() tells whether the handle is mapped.  It is true
\* after a create() or open() that returned true, false after close() and
\* on the new handle a destructor leaves behind, and a call that fails on
\* a handle that was not mapped leaves it false.
C13_IsInitializedIffMapped ==
    [][\A h \in {last'.h} \cap Handles :
          /\ (last'.op \in {"create", "open"} /\ last'.ret)
                => isInitialized(h)' /\ data_ptr_'[h] \in ObjIds
          /\ last'.op \in {"close", "dtor"} => ~isInitialized(h)'
          /\ (last'.op \in {"create", "open"} /\ ~last'.ret
                /\ ~isInitialized(h))
                => ~isInitialized(h)']_vars

\* a handle mapped by a successful open() has been closed and reads as
\* not initialized, while the owner's handle still reads as initialized
C13_Witness ==
    /\ last.op = "close"
    /\ ~isInitialized(last.h)
    /\ shm_name_[last.h] = NameA
    /\ ~is_owner_[last.h]
    /\ \E g \in Handles : isInitialized(g) /\ is_owner_[g]

\* C14: only the creator removes a resource.  No close() or destructor of
\* a handle removes the resource of a name that a different handle, still
\* attached to it as owner, created.
CreatedBy(g, n) ==
    /\ is_owner_[g]
    /\ shm_name_[g] = n
    /\ shm[n] # NoObj
    /\ data_ptr_[g] = shm[n]

C14_OnlyCreatorRemoves ==
    [][last'.op \in {"close", "dtor"}
          => \A n \in Names :
                (\E g \in Handles \ {last'.h} : CreatedBy(g, n))
                    => shm'[n] # NoObj]_vars

\* C15: the mapped record is shared by all attached processes.  Any two
\* handles that are attached under the same name refer to the same record,
\* so each reads what the other stores, also after a create() of the name
\* issued while the other held its mapping.
C15_SameNameSameRecord ==
    \A g, h \in Handles :
        (isInitialized(g) /\ isInitialized(h) /\ shm_name_[g] = shm_name_[h])
            => data_ptr_[g] = data_ptr_[h]

\* C16: create() over an existing resource.  create(name) succeeds when
\* the name already has a resource, and the record it maps and leaves
\* under the name is a new, default-constructed one: no handle attached
\* before refers to it and no value stored earlier is in it.
C16_CreateOverStaleIsFresh ==
    [][\A h \in {last'.h} \cap Handles :
          last'.op = "create"
            => /\ last'.ret
               /\ data_ptr_'[h] # nullptr
               /\ shm'[last'.name] = data_ptr_'[h]
               /\ region'[data_ptr_'[h]] = DeviceConfigTable
               /\ \A g \in Handles \ {h} : data_ptr_'[g] # data_ptr_'[h]]_vars

\* create() has succeeded over a resource whose ready flag had been set
\* and that another handle still maps
C16_Witness ==
    /\ last.op = "create"
    /\ last.ret
    /\ region[data_ptr_[last.h]] = DeviceConfigTable
    /\ \E g \in Handles \ {last.h} :
          /\ isInitialized(g)
          /\ shm_name_[g] = last.name
          /\ region[data_ptr_[g]].ready

\* C17: no resource outlives its creating handle.  Once the handle whose
\* successful create() calls allocated every resource there is has been
\* destroyed, whatever create(), open() and close() calls were made on it,
\* no name refers to a resource any more.
C17_NothingOutlivesCreator ==
    (last.op = "dtor" /\ last.h = Controller)
        => \A n \in Names : shm[n] = NoObj

\* C18: SafeQueue delivers each item exactly once, in FIFO order.  The
\* items pop() has returned so far, in the order of their return, followed
\* by the items still queued, are exactly the items pushed, in the order
\* their push() took the lock.
IsItem(v) == v # Default

C18_ExactlyOnceFifo ==
    SelectSeq(popped, IsItem) \o queue_ = [i \in 1..pushed |-> i]

\* every item has been pushed and returned while the queue is running
C18_Witness ==
    /\ pushed = MaxItems
    /\ Len(SelectSeq(popped, IsItem)) = MaxItems
    /\ queue_ = << >>
    /\ running_

\* C19: pop() never blocks forever once work or shutdown arrives.  Under
\* fair scheduling a thread blocked in pop() while an item is queued or
\* stop() has been called gets out of pop(), unless the queue is still
\* running and other consumers took every item.
Blocked(t) == qpc[t] \in {"waiting", "woken"}

C19_PopReturns ==
    \A t \in Threads :
        (Blocked(t) /\ (queue_ # << >> \/ ~running_))
            ~> (~Blocked(t) \/ (queue_ = << >> /\ running_))

\* stop() has been called and completed while a thread was blocked in
\* pop() on the empty queue; the thread is woken
C19_Witness ==
    /\ ~running_
    /\ queue_ = << >>
    /\ \E t \in Threads : qpc[t] = "woken"
    /\ \A t \in Threads : qpc[t] # "notify"

\* C20: pop() returns the default value only when stop() has been called
\* and the queue is empty at that moment; whenever an item is queued, also
\* after stop(), pop() returns the front item.
C20_DefaultOnlyStoppedEmpty ==
    [][Len(popped') > Len(popped)
          => /\ popped'[Len(popped')] = Default
                    => (~running_ /\ queue_ = << >>)
             /\ queue_ # << >>
                    => popped'[Len(popped')] = Head(queue_)]_vars

\* after stop() pop() has returned the default value, then the items
\* pushed after that in their order, and then the default value again
C20_Witness ==
    /\ ~running_
    /\ Len(popped) >= 2
    /\ popped[Len(popped)] = Default
    /\ popped[Len(popped) - 1] = pushed
    /\ pushed = MaxItems
    /\ popped[1] = Default

====
